---- MODULE Spec2Model ----
(***************************************************************************)
(* Model of src/main.rs: the two axum handlers (POST /api -> handle_post,  *)
(* GET / -> handler) and the functions they call to print a web page to    *)
(* PDF, read the PDF text, fetch the page's markup, run readability on it  *)
(* and pick one of the two texts.                                          *)
(*                                                                         *)
(* One request is in flight at a time; the await points of the handlers    *)
(* are the steps of the state machine.  The browser, the web site, pdfium  *)
(* and the readability library are the environment: every call that        *)
(* returns a Result in the source may fail.                                *)
(***************************************************************************)
EXTENDS Integers, Sequences, FiniteSets, TLC

\* Largest number of pages of a printed document.
MaxPages == 2

(***************************************************************************)
(* Results, options and texts.                                             *)
(***************************************************************************)
Ok(v) == [ok |-> TRUE, val |-> v, err |-> "none"]
Err(e) == [ok |-> FALSE, val |-> <<>>, err |-> e]

Some(v) == [some |-> TRUE, v |-> v]

\* A String is a sequence of segments; [tok |-> w, n |-> k] is the token w
\* written k times with single spaces in between, tok = " " is whitespace.
\* Two word segments that touch form one word where they meet.
Rep(w, k) == IF k = 0 THEN <<>> ELSE <<[tok |-> w, n |-> k]>>
Space == [tok |-> " ", n |-> 1]

RECURSIVE Lit(_)
Lit(ws) ==
    IF Len(ws) = 0 THEN <<>>
    ELSE IF Len(ws) = 1 THEN Rep(ws[1], 1)
    ELSE Rep(ws[1], 1) \o <<Space>> \o Lit(Tail(ws))

ParseFailureMsg == Lit(<<"parse", "target", "url", "failure">>)
FailedMsg == Lit(<<"failed", "to", "get", "text", "from", "webpage">>)
IllFormedMsg == Lit(<<"probably", "ill-formed", "request">>)

RECURSIVE CountFrom(_, _, _)
CountFrom(t, i, inWord) ==
    IF i > Len(t) THEN 0
    ELSE IF t[i].n = 0 THEN CountFrom(t, i + 1, inWord)
    ELSE IF t[i].tok = " " THEN CountFrom(t, i + 1, FALSE)
    ELSE t[i].n - (IF inWord THEN 1 ELSE 0) + CountFrom(t, i + 1, TRUE)

\* str::split_whitespace().count()
split_whitespace_count(t) == CountFrom(t, 1, FALSE)

\* Vec<String>::join(" ")
RECURSIVE join(_)
join(texts) ==
    IF Len(texts) = 0 THEN <<>>
    ELSE IF Len(texts) = 1 THEN texts[1]
    ELSE texts[1] \o <<Space>> \o join(Tail(texts))

(***************************************************************************)
(* URLs.  A url string is kept as the parts the parser finds in it; a      *)
(* string without a scheme is a relative reference and does not parse.     *)
(***************************************************************************)
EmptyString == [scheme |-> "", host |-> "", path |-> ""]
ArticleUrl == [scheme |-> "https", host |-> "example.com", path |-> "/article"]
NotAUrl == [scheme |-> "", host |-> "", path |-> "not a url"]

UrlStrings == {EmptyString, ArticleUrl, NotAUrl}
None == [some |-> FALSE, v |-> EmptyString]

UrlFromStrLax(s) == IF s = EmptyString THEN Err("relative") ELSE Ok(s)

\* Url::from_str / Url::parse
UrlFromStr(s) == IF s.scheme = "" THEN Err("relative") ELSE Ok(s)

\* the serde decorator of Params.url
empty_string_as_none(opt) ==
    IF ~opt.some \/ opt.v = EmptyString THEN None ELSE Some(opt.v)

(***************************************************************************)
(* The web page as one navigation loads it: the pages Chrome prints, each  *)
(* with the text pdfium reads from it (or an error), and the markup, with  *)
(* the article readability finds in it (or an error).                      *)
(***************************************************************************)
PageWordCounts == {1, 999}
ArticleWordCounts == {0, 500, 501, 999}

PageOptions ==
    {Err("page text")} \cup {Ok(Rep("w", k)) : k \in PageWordCounts}
        \cup {Ok(FailedMsg)}
ArticleOptions ==
    {Err("no content")} \cup {Ok(Rep("w", k)) : k \in ArticleWordCounts}

PdfDocs == UNION {[1..n -> PageOptions] : n \in 0..MaxPages}
NoHtml == [article |-> Err("none")]
PageStates == [pages : PdfDocs, html : [article : ArticleOptions]]
NoPage == [pages |-> <<>>, html |-> NoHtml]

\* Browser::new, new_tab, navigate_to, wait_until_navigated and then
\* print_to_pdf or get_content: the first call that fails, if any.
PdfRenderOutcomes == {"ok", "launch", "new_tab", "navigate", "wait", "print"}
HtmlRenderOutcomes == {"ok", "launch", "new_tab", "navigate", "wait", "content"}
\* Pdfium::bind_to_library(..).or_else(bind_to_system_library), load_pdf_from_byte_vec
PdfiumOutcomes == {"ok", "bind", "load"}

VARIABLES
    pc,            \* where the handler of the request in flight is
    endpoint,      \* "POST" (/api) or "GET" (/)
    req_url,       \* the url of the request as sent (None: no url parameter)
    pdf_data,      \* get_webpage_text_headless: the printed document
    pdf_text,      \* text_to_use: pdf_text
    html_str,      \* text_to_use: html_str
    readah_text,   \* text_to_use: readah_text
    response,      \* what the handler returned
    outcome,       \* "none", "ok", "invalid_url", "ill_formed", "err", "panic"
    launches,      \* browsers launched for this request
    loaded,        \* the page state the first navigation loaded
    same_loaded_state, \* the second navigation loaded that same state
    invoked,       \* extractors that were called
    failed,        \* extractors that were called and did not return Ok
    renderFailed,  \* a render step of this request failed
    chosen         \* which text text_to_use returned

vars == <<pc, endpoint, req_url, pdf_data, pdf_text, html_str, readah_text,
          response, outcome, launches, loaded, same_loaded_state, invoked,
          failed, renderFailed, chosen>>

NoResponse == [sent |-> FALSE, status |-> 0, kind |-> "none", body |-> <<>>]

\* Response::builder().status(StatusCode::OK).body(..)
post_response(body) == [sent |-> TRUE, status |-> 200, kind |-> "text", body |-> body]
\* Json(MyResponse { text })
get_response(text) == [sent |-> TRUE, status |-> 200, kind |-> "json", body |-> text]

\* the match on the Result of text_to_use / get_webpage_text_headless
Respond(ep, res) ==
    LET body == IF res.ok THEN res.val ELSE FailedMsg
    IN  IF ep = "POST" THEN post_response(body) ELSE get_response(body)

Init ==
    /\ pc = "idle"
    /\ endpoint = "POST"
    /\ req_url = None
    /\ pdf_data = <<>>
    /\ pdf_text = <<>>
    /\ html_str = NoHtml
    /\ readah_text = <<>>
    /\ response = NoResponse
    /\ outcome = "none"
    /\ launches = 0
    /\ loaded = NoPage
    /\ same_loaded_state = FALSE
    /\ invoked = {}
    /\ failed = {}
    /\ renderFailed = FALSE
    /\ chosen = "None"

\* A step returned Err and `?` carried it to the handler.
Fail ==
    /\ pc' = "done"
    /\ outcome' = "err"
    /\ response' = Respond(endpoint, Err("anyhow"))

handle_post(u) ==
    /\ pc = "idle"
    /\ endpoint' = "POST"
    /\ req_url' = Some(u)
    /\ IF ~UrlFromStr(u).ok
       THEN /\ pc' = "done"
            /\ outcome' = "invalid_url"
            /\ response' = post_response(ParseFailureMsg)
       ELSE /\ pc' = "render_pdf"
            /\ UNCHANGED <<outcome, response>>
    /\ UNCHANGED <<pdf_data, pdf_text, html_str, readah_text, launches, loaded,
                   same_loaded_state, invoked, failed, renderFailed, chosen>>

handler(q) ==
    /\ pc = "idle"
    /\ endpoint' = "GET"
    /\ req_url' = q
    /\ LET url == empty_string_as_none(q)
       IN  IF ~url.some
           THEN /\ pc' = "done"
                /\ outcome' = "ill_formed"
                /\ response' = get_response(IllFormedMsg)
           ELSE IF ~UrlFromStr(url.v).ok
           THEN /\ pc' = "done"
                /\ outcome' = "invalid_url"
                /\ response' = get_response(ParseFailureMsg)
           ELSE /\ pc' = "render_pdf"
                /\ UNCHANGED <<outcome, response>>
    /\ UNCHANGED <<pdf_data, pdf_text, html_str, readah_text, launches, loaded,
                   same_loaded_state, invoked, failed, renderFailed, chosen>>

\* get_webpage_text_headless up to print_to_pdf
RenderPdf ==
    /\ pc = "render_pdf"
    /\ launches' = launches + 1
    /\ \E o \in PdfRenderOutcomes, s \in PageStates :
          IF o = "ok"
          THEN /\ loaded' = s
               /\ pdf_data' = s.pages
               /\ pc' = "extract_pdf"
               /\ UNCHANGED <<outcome, response, renderFailed>>
          ELSE /\ renderFailed' = TRUE
               /\ Fail
               /\ UNCHANGED <<loaded, pdf_data>>
    /\ UNCHANGED <<endpoint, req_url, pdf_text, html_str, readah_text,
                   same_loaded_state, invoked, failed, chosen>>

\* get_webpage_text_headless from Pdfium::new to Ok(text)
ExtractPdfText ==
    /\ pc = "extract_pdf"
    /\ invoked' = invoked \cup {"Paginated"}
    /\ \E o \in PdfiumOutcomes :
          IF o # "ok"
          THEN /\ Fail
               /\ failed' = failed \cup {"Paginated"}
               /\ UNCHANGED pdf_text
          ELSE IF \E i \in 1..Len(pdf_data) : ~pdf_data[i].ok
          THEN \* page.text().unwrap()
               /\ pc' = "panicked"
               /\ outcome' = "panic"
               /\ failed' = failed \cup {"Paginated"}
               /\ UNCHANGED <<pdf_text, response>>
          ELSE LET text == join([i \in 1..Len(pdf_data) |-> pdf_data[i].val])
               IN  /\ pdf_text' = text
                   /\ UNCHANGED failed
                   /\ IF endpoint = "GET"
                      THEN /\ pc' = "done"
                           /\ outcome' = "ok"
                           /\ response' = Respond("GET", Ok(text))
                      ELSE /\ pc' = "render_html"
                           /\ UNCHANGED <<outcome, response>>
    /\ UNCHANGED <<endpoint, req_url, pdf_data, html_str, readah_text, launches,
                   loaded, same_loaded_state, renderFailed, chosen>>

\* get_html_headless
RenderHtml ==
    /\ pc = "render_html"
    /\ launches' = launches + 1
    /\ \E o \in HtmlRenderOutcomes, s \in PageStates :
          IF o = "ok"
          THEN /\ html_str' = s.html
               /\ same_loaded_state' = (s = loaded)
               /\ pc' = "extract_article"
               /\ UNCHANGED <<outcome, response, renderFailed>>
          ELSE /\ renderFailed' = TRUE
               /\ Fail
               /\ UNCHANGED <<html_str, same_loaded_state>>
    /\ UNCHANGED <<endpoint, req_url, pdf_data, pdf_text, readah_text, loaded,
                   invoked, failed, chosen>>

\* html2text::from_read(.., 80): whitespace runs become one separator
from_read(t) == [i \in 1..Len(t) |-> IF t[i].tok = " " THEN Space ELSE t[i]]

extract_article_text_from_html(url, html) ==
    LET parsed_url == UrlFromStr(url)
        base_url ==
            UrlFromStr([scheme |-> parsed_url.val.scheme,
                        host |-> parsed_url.val.host, path |-> ""])
    IN  IF ~parsed_url.ok THEN Err("url")
        ELSE IF ~base_url.ok THEN Err("base url")
        ELSE IF ~html.article.ok THEN Err("readability")
        ELSE Ok(from_read(html.article.val))

ExtractArticle ==
    /\ pc = "extract_article"
    /\ invoked' = invoked \cup {"Readability"}
    /\ LET res == extract_article_text_from_html(req_url.v, html_str)
       IN  IF ~res.ok
           THEN /\ Fail
                /\ failed' = failed \cup {"Readability"}
                /\ UNCHANGED readah_text
           ELSE /\ readah_text' = res.val
                /\ pc' = "select"
                /\ UNCHANGED <<failed, outcome, response>>
    /\ UNCHANGED <<endpoint, req_url, pdf_data, pdf_text, html_str, launches,
                   loaded, same_loaded_state, renderFailed, chosen>>

lots_of_text_on_page_lax(pdf_text_len) == pdf_text_len >= 999

lots_of_text_on_page(pdf_text_len) == pdf_text_len > 999
readah_sees_lots_of_texts(readah_text_len) == readah_text_len > 500

\* the end of text_to_use: which text it returns
Select(pdf, readah) ==
    LET readah_text_len == split_whitespace_count(readah)
        pdf_text_len == split_whitespace_count(pdf)
    IN  IF lots_of_text_on_page(pdf_text_len)
           /\ readah_sees_lots_of_texts(readah_text_len)
        THEN [source |-> "Readability", text |-> readah]
        ELSE [source |-> "Paginated", text |-> pdf]

SelectText ==
    /\ pc = "select"
    /\ LET sel == Select(pdf_text, readah_text)
       IN  /\ chosen' = sel.source
           /\ response' = Respond(endpoint, Ok(sel.text))
    /\ pc' = "done"
    /\ outcome' = "ok"
    /\ UNCHANGED <<endpoint, req_url, pdf_data, pdf_text, html_str, readah_text,
                   launches, loaded, same_loaded_state, invoked, failed,
                   renderFailed>>

\* The request is over (answered, or its task panicked); the server takes
\* the next one with nothing kept from this one.
NextRequest ==
    /\ pc \in {"done", "panicked"}
    /\ pc' = "idle"
    /\ endpoint' = "POST"
    /\ req_url' = None
    /\ pdf_data' = <<>>
    /\ pdf_text' = <<>>
    /\ html_str' = NoHtml
    /\ readah_text' = <<>>
    /\ response' = NoResponse
    /\ outcome' = "none"
    /\ launches' = 0
    /\ loaded' = NoPage
    /\ same_loaded_state' = FALSE
    /\ invoked' = {}
    /\ failed' = {}
    /\ renderFailed' = FALSE
    /\ chosen' = "None"

Next ==
    \/ \E u \in UrlStrings : handle_post(u)
    \/ \E q \in {None} \cup {Some(u) : u \in UrlStrings} : handler(q)
    \/ RenderPdf
    \/ ExtractPdfText
    \/ RenderHtml
    \/ ExtractArticle
    \/ SelectText
    \/ NextRequest

Spec == Init /\ [][Next]_vars

(***************************************************************************)
(* Properties.                                                             *)
(***************************************************************************)
Terminal == pc \in {"done", "panicked"}
PostSucceeded == pc = "done" /\ endpoint = "POST" /\ outcome = "ok"
P == split_whitespace_count(pdf_text)
R == split_whitespace_count(readah_text)

\* C1: when text_to_use has both texts (word counts P and R), it returns the
\* readability text if and only if P > 999 and R > 500, and the paginated
\* text in every other case; (1000, 501) gives Readability, (1000, 500),
\* (999, 999) and (0, 0) give Paginated.
C1_SelectionThresholds ==
    PostSucceeded =>
        /\ IF P > 999 /\ R > 500
           THEN chosen = "Readability" /\ response.body = readah_text
           ELSE chosen = "Paginated" /\ response.body = pdf_text
        /\ (P = 1000 /\ R = 501) => chosen = "Readability"
        /\ (P = 1000 /\ R = 500) => chosen = "Paginated"
        /\ (P = 999 /\ R = 999) => chosen = "Paginated"
        /\ (P = 0 /\ R = 0) => chosen = "Paginated"

C1_Witness ==
    PostSucceeded /\ P = 1000 /\ R = 501 /\ chosen = "Readability"
        /\ response.body = readah_text /\ readah_text # pdf_text

\* C2: in a run whose render succeeded, if exactly one of the two extractors
\* fails, the other one still runs and the run ends in success with the
\* surviving candidate's text.
C2_ExtractorIsolation ==
    (Terminal /\ launches > 0 /\ ~renderFailed /\ Cardinality(failed) = 1) =>
        /\ pc = "done" /\ outcome = "ok"
        /\ endpoint = "POST" => invoked = {"Paginated", "Readability"}
        /\ response.body =
               IF "Paginated" \in failed THEN readah_text ELSE pdf_text

\* C3: when the render succeeds and both extractors fail on the rendered
\* page, the run ends in success with empty text and no chosen source; and
\* no chosen source occurs only when no candidate is present.
C3_NoCandidatesIsSuccess ==
    /\ (Terminal /\ endpoint = "POST" /\ launches > 0 /\ ~renderFailed
          /\ "Paginated" \in failed
          /\ ("Readability" \in failed \/ ~loaded.html.article.ok)) =>
            /\ pc = "done" /\ outcome = "ok"
            /\ response.body = <<>>
            /\ chosen = "None"
    /\ (PostSucceeded /\ chosen = "None") => invoked \subseteq failed

\* C4: if rendering fails, the run ends in failure with no text returned,
\* and no extractor is invoked in that run, before or after the failure.
C4_RenderFailureIsTerminal ==
    renderFailed =>
        /\ pc = "done" /\ outcome = "err"
        /\ response.body = FailedMsg
        /\ invoked = {}

\* the url strings of the requests that are not URLs
MalformedUrls == {EmptyString, NotAUrl}
RequestUrlIsInvalid == req_url.some /\ req_url.v \in MalformedUrls

\* C5 (as stated): for every request whose url fails URL syntax validation,
\* on both endpoints, the response is the invalid-URL outcome and no render
\* is attempted.
C5_InvalidUrlOutcome ==
    (pc # "idle" /\ RequestUrlIsInvalid) =>
        /\ pc = "done" /\ outcome = "invalid_url"
        /\ response.body = ParseFailureMsg
        /\ launches = 0

\* C5 (amended): for every request whose url fails URL syntax validation no
\* render is attempted and the request is answered at once; the answer is
\* the invalid-URL outcome, except on GET / with an empty url, which is
\* answered "probably ill-formed request" like a request without a url.
C5_InvalidUrlNeverRenders ==
    (pc # "idle" /\ RequestUrlIsInvalid) =>
        /\ pc = "done"
        /\ launches = 0
        /\ invoked = {}
        /\ IF endpoint = "GET" /\ req_url.v = EmptyString
           THEN outcome = "ill_formed" /\ response.body = IllFormedMsg
           ELSE outcome = "invalid_url" /\ response.body = ParseFailureMsg

C5_Witness ==
    /\ pc = "done" /\ req_url = Some(NotAUrl) /\ endpoint = "GET"
    /\ response = get_response(ParseFailureMsg) /\ launches = 0

\* C6: a pipeline run renders the page exactly once and both candidates come
\* from that one loaded state of the page.
C6_SingleRender ==
    PostSucceeded => (launches = 1 /\ same_loaded_state)

PostFailureResponses ==
    {post_response(ParseFailureMsg), Respond("POST", Err("anyhow"))}

\* C7: on POST /api no response of a successful extraction is identical, in
\* status and body, to a failure response.
C7_FailuresDistinguishable ==
    PostSucceeded => response \notin PostFailureResponses

Stage ==
    CASE pc = "idle" -> "Idle"
      [] pc \in {"render_pdf", "render_html"} -> "Rendering"
      [] pc \in {"extract_pdf", "extract_article"} -> "Extracting"
      [] pc = "select" -> "Selecting"
      [] pc = "done" /\ outcome = "ok" -> "Done"
      [] pc = "done" /\ outcome # "ok" -> "Failed"
      [] pc = "panicked" -> "Crashed"

StageRank(s) ==
    CASE s = "Idle" -> 0
      [] s = "Rendering" -> 1
      [] s = "Extracting" -> 2
      [] s = "Selecting" -> 3
      [] s \in {"Done", "Failed", "Crashed"} -> 4

\* C8: a run moves through Idle, Rendering, Extracting, Selecting, Done in
\* that order without going back to an earlier stage (no rendering after
\* extraction has started); any stage may move to Failed instead.
C8_StageOrder ==
    [][\/ StageRank(Stage') >= StageRank(Stage)
       \/ Stage' = "Failed"
       \/ (StageRank(Stage) = 4 /\ Stage' = "Idle")]_vars

\* C9: if a page of the printed document has text that cannot be decoded,
\* the paginated extractor returns an error value and the request is
\* answered with the failure outcome; the request does not crash.
C9_PageDecodeFailureIsAnError ==
    (Terminal /\ "Paginated" \in invoked
       /\ \E i \in 1..Len(pdf_data) : ~pdf_data[i].ok) =>
        /\ pc = "done" /\ outcome = "err"
        /\ response.sent /\ response.body = FailedMsg

\* what POST /api returns for a page in the state s
PostTextOn(s) ==
    Select(join([i \in 1..Len(s.pages) |-> s.pages[i].val]),
           from_read(s.html.article.val)).text

\* C10: the text GET / returns for a rendered page is the text POST /api
\* returns for that page.
C10_GetEqualsPost ==
    (pc = "done" /\ endpoint = "GET" /\ outcome = "ok" /\ loaded.html.article.ok)
        => response.body = PostTextOn(loaded)

====
